---- MODULE Spec2Model ----
(***************************************************************************)
(* Model of netlify/functions/sync-youtube.js: the scheduled handler that  *)
(* mirrors a YouTube channel feed into a Webflow CMS collection.           *)
(*                                                                         *)
(* One invocation of handler() is modelled, split at its suspension points *)
(* (every awaited fetch).  An action is a fetch together with the code     *)
(* that runs on its response up to the next fetch or the return.           *)
(*                                                                         *)
(* The source file holds three successive versions of handler(); the model *)
(* is of the first one (lines 12-216), the one with the inventory loader.  *)
(* Every fetch is taken to return a response; what the services answer is  *)
(* chosen nondeterministically.                                            *)
(*                                                                         *)
(* Strings are sequences of tokens; Sp is the one whitespace token.  An    *)
(* absent field (undefined) and the empty string are both falsy in every   *)
(* test the handler makes on them, and both are written <<>>.              *)
(***************************************************************************)
EXTENDS Naturals, Sequences, FiniteSets

\* ---------------------------------------------------------------- bounds
MaxPages == 3       \* pages of the CMS listing
MaxPageItems == 2   \* items on one page of the listing
MaxEntries == 2     \* entries of the feed
MaxDescTail == 3    \* characters of a description after its padding
MaxRunLoad == 2     \* listing pages plus feed entries, two invocations followed

\* ---------------------------------------------------------------- strings
Sp == " "
Tab == "\t"
LF == "\n"
CR == "\r"

\* What \s matches and trim() strips, among the characters modelled.
Whitespace == { Sp, Tab, LF, CR }
IsWs(c) == c \in Whitespace

RECURSIVE TrimStart(_)
TrimStart(s) ==
  IF s # <<>> /\ IsWs(Head(s)) THEN TrimStart(Tail(s)) ELSE s

RECURSIVE TrimEnd(_)
TrimEnd(s) ==
  IF s # <<>> /\ IsWs(s[Len(s)]) THEN TrimEnd(SubSeq(s, 1, Len(s) - 1)) ELSE s

\* String.prototype.trim
Trim(s) == TrimEnd(TrimStart(s))

\* JavaScript truthiness of a string-or-undefined value
Truthy(s) == s # <<>>

\* `https://www.youtube.com/watch?v=${videoId}`
WatchUrl(videoId) == <<"https://www.youtube.com/watch?v=">> \o videoId

\* `yt-${videoId}`
SlugOf(videoId) == <<"yt-">> \o videoId

\* new Date(publishedRaw) is a valid date (toISOString does not throw)
ValidDate(publishedRaw) == publishedRaw = <<"2024-05-01T10:00:00+00:00">>

\* ------------------------------------------------------- description
\* const MAX_LEN = 1000
MAX_LEN == 1000

\* Stands for a character a replace() removes.
Dropped == "dropped"
Kept(s) == SelectSeq(s, LAMBDA c : c # Dropped)

\* .replace(/\r?\n|\r/g, " "): a CR LF pair, a lone LF and a lone CR each
\* become one space.
ReplaceLineBreaks(s) ==
  Kept([i \in DOMAIN s |->
          IF s[i] = CR /\ i < Len(s) /\ s[i + 1] = LF THEN Dropped
          ELSE IF s[i] \in { LF, CR } THEN Sp
          ELSE s[i]])

\* Mutant of CollapseWhitespace: the pattern is / +/g, runs of spaces only.
CollapseSpacesOnly(s) ==
  Kept([i \in DOMAIN s |->
          IF s[i] = Sp /\ i > 1 /\ s[i - 1] = Sp THEN Dropped ELSE s[i]])

\* .replace(/\s+/g, " "): every maximal run of whitespace becomes one space.
CollapseWhitespace(s) ==
  Kept([i \in DOMAIN s |->
          IF IsWs(s[i]) /\ i > 1 /\ IsWs(s[i - 1]) THEN Dropped
          ELSE IF IsWs(s[i]) THEN Sp
          ELSE s[i]])

\* descriptionOneLine
DescriptionOneLine(raw) == Trim(CollapseWhitespace(ReplaceLineBreaks(raw)))

\* s.length > MAX_LEN ? s.slice(0, MAX_LEN) : s
Cut(s) == IF Len(s) > MAX_LEN THEN SubSeq(s, 1, MAX_LEN) ELSE s

\* safeDescription, the payload's "description-2"
SafeDescription(raw) == Cut(DescriptionOneLine(raw))

\* ---------------------------------------------------------------- inputs
VidA == <<"a">>
VidB == <<"b">>
Title == <<"T">>
GoodDate == <<"2024-05-01T10:00:00+00:00">>
BadDate == <<"not-a-date">>

\* Feed entries as parsed from the XML: yt:videoId, title, link/@href, published.
EntryPool ==
  { [videoId |-> VidA, title |-> Title, href |-> <<>>, published |-> GoodDate],
    [videoId |-> VidA, title |-> Title, href |-> <<Sp>> \o WatchUrl(VidB) \o <<Sp>>,
       published |-> GoodDate],
    [videoId |-> VidB, title |-> Title, href |-> <<>>, published |-> GoodDate],
    [videoId |-> VidB, title |-> Title, href |-> <<>>, published |-> BadDate],
    [videoId |-> <<>>, title |-> Title, href |-> WatchUrl(VidA), published |-> GoodDate],
    [videoId |-> VidA, title |-> <<>>, href |-> <<>>, published |-> GoodDate],
    [videoId |-> <<>>, title |-> Title, href |-> <<>>, published |-> GoodDate] }

\* The sequences over S of length at most n.
RECURSIVE SeqsUpTo(_, _)
SeqsUpTo(S, n) ==
  IF n = 0 THEN { <<>> }
  ELSE LET shorter == SeqsUpTo(S, n - 1)
       IN shorter \cup { Append(q, x) : q \in shorter, x \in S }

Feeds == SeqsUpTo(EntryPool, MaxEntries)

\* Items of the CMS collection before the run: slug and fieldData["video-url"].
ItemPool ==
  { [id |-> 1, slug |-> SlugOf(VidA), videoUrl |-> <<>>],
    [id |-> 2, slug |-> <<"other">>, videoUrl |-> <<Sp>> \o WatchUrl(VidB) \o <<Sp>>] }

\* A listing page (data.items) holds some of the items, possibly none; an
\* item is on one page only.
PagePool == { page \in SUBSET ItemPool : Cardinality(page) <= MaxPageItems }

Listings ==
  { ps \in SeqsUpTo(PagePool, MaxPages) :
      /\ Len(ps) >= 1
      /\ \A i, j \in DOMAIN ps : i # j => ps[i] \cap ps[j] = {} }

\* media:description values: a lead, a padding of n letters and a tail, the
\* paddings chosen around MAX_LEN; and the sentence of two lines.
Chars == { "x", Sp, Tab, LF, CR }
Pad(n) == [i \in 1..n |-> "x"]
PadLens == { 0, MAX_LEN - 1, MAX_LEN }
TwoLines ==
  << "L", "i", "n", "e", Sp, "o", "n", "e", LF,
     "L", "i", "n", "e", Sp, "t", "w", "o", Sp, Sp, Sp, "t", "h", "r", "e", "e" >>
Descriptions ==
  { lead \o Pad(n) \o tail :
      lead \in SeqsUpTo(Chars, 1), n \in PadLens, tail \in SeqsUpTo(Chars, MaxDescTail) }
  \cup { TwoLines }

EnvNames == { "WEBFLOW_API_TOKEN", "COLLECTION_ID", "YOUTUBE_CHANNEL_ID" }

\* HTTP statuses the services answer with
OkStatus == 200
ConflictStatus == 409
ErrorStatus == 500
IsOk(status) == status = OkStatus

\* ---------------------------------------------------------------- state
VARIABLES
  env,            \* process.env: which of the three values are set
  cms,            \* the CMS collection, as the pages its listing returns
  pc,             \* where the handler is: start, listing, feed, loop, publish, done
  nextUrl,        \* page the loader fetches next; 0 is null
  existingSlugs,  \* inventory: slugs
  existingUrls,   \* inventory: video URLs
  entries,        \* the parsed feed entries
  idx,            \* position of the for-of loop in entries
  createdId,      \* id of the item just created; 0 is none
  statusCode,     \* statusCode of the returned result; 0 is not returned yet
  log,            \* HTTP requests issued so far, with the status answered
  links,          \* pagination.nextPage of each listing page; 0 is null
  recording,      \* whether log is kept (it is a history of the run)
  parked,         \* the local state of a second invocation of handler()
  overlapped,     \* whether the two invocations have run interleaved
  rawDescription,   \* media:description of the entry being converted
  safeDescription,  \* the payload's description-2
  againDescription  \* the sanitizing applied to safeDescription

\* What the steps of one invocation of handler() leave alone.
others == << links, recording, parked, overlapped, rawDescription,
             safeDescription, againDescription >>

vars == << env, cms, pc, nextUrl, existingSlugs, existingUrls, entries, idx,
           createdId, statusCode, log, others >>

Req(kind, n, status, id) == [kind |-> kind, n |-> n, status |-> status, id |-> id]

\* The listing's pages each name the next one, the last names none.
Chain(pages) == [n \in DOMAIN pages |-> IF n < Len(pages) THEN n + 1 ELSE 0]

\* The local state of an invocation that has not started.
Fresh ==
  [ pc |-> "start", nextUrl |-> 0, existingSlugs |-> {}, existingUrls |-> {},
    entries |-> <<>>, idx |-> 0, createdId |-> 0, statusCode |-> 0, log |-> <<>> ]

\* An invocation about to start, and a second one not started either.
NotStarted ==
  /\ pc = "start"
  /\ nextUrl = 0
  /\ existingSlugs = {}
  /\ existingUrls = {}
  /\ entries = <<>>
  /\ idx = 0
  /\ createdId = 0
  /\ statusCode = 0
  /\ log = <<>>
  /\ parked = Fresh
  /\ overlapped = FALSE

\* No description is being converted.
NoDescription ==
  /\ rawDescription = <<>>
  /\ safeDescription = <<>>
  /\ againDescription = <<>>

Init ==
  /\ env \in [EnvNames -> BOOLEAN]
  /\ cms \in Listings
  /\ links = Chain(cms)
  /\ recording = TRUE
  /\ NotStarted
  /\ NoDescription


\* ---------------------------------------------------------------- helpers
\* Mutant of MissingEnv: the channel id is not checked.
MissingEnvNoChannel == ~env["WEBFLOW_API_TOKEN"] \/ ~env["COLLECTION_ID"]

\* if (!WEBFLOW_TOKEN || !COLLECTION_ID || !CHANNEL_ID)
MissingEnv == \E n \in EnvNames : ~env[n]

\* item.slug of the items of a page, where truthy
PageSlugs(page) == { it.slug : it \in { x \in page : Truthy(x.slug) } }

\* fieldData["video-url"] of the items of a page, trimmed, where non-empty
PageUrls(page) ==
  { Trim(it.videoUrl) : it \in { x \in page : Truthy(Trim(x.videoUrl)) } }

\* Mutant of NextPage: pagination is not followed.
NextPageNever(n) == 0

\* data.pagination.nextPage of page n of the listing, 0 for null
NextPage(n) == links[n]

\* entry.link["@_href"] || (videoId ? watch URL : "")
LinkOf(entry) ==
  IF Truthy(entry.href) THEN entry.href
  ELSE IF Truthy(entry.videoId) THEN WatchUrl(entry.videoId) ELSE <<>>

\* Mutant of MissingFields: only the id is checked.
MissingFieldsIdOnly(entry) == ~Truthy(entry.videoId)

\* if (!videoId || !title || !link)
MissingFields(entry) ==
  ~Truthy(entry.videoId) \/ ~Truthy(entry.title) \/ ~Truthy(LinkOf(entry))

\* const urlKey = link.trim()
UrlKeyOf(entry) == Trim(LinkOf(entry))

\* Mutant of IsDuplicate: the inventory is not looked up.
IsDuplicateNever(slug, urlKey) == FALSE

\* Mutant of IsDuplicate: the URL check is left out.
IsDuplicateSlugOnly(slug, urlKey) == slug \in existingSlugs

\* existingSlugs.has(slug) || existingUrls.has(urlKey)
IsDuplicate(slug, urlKey) == slug \in existingSlugs \/ urlKey \in existingUrls

\* Mutant of AddSlug: the in-run inventory update is left out.
AddSlugForgotten(slug) == existingSlugs

\* existingSlugs.add(slug)
AddSlug(slug) == existingSlugs \cup { slug }

\* Mutant of AddUrl: the URL is not recorded.
AddUrlForgotten(urlKey) == existingUrls

\* existingUrls.add(urlKey)
AddUrl(urlKey) == existingUrls \cup { urlKey }

\* created?.id || created?.item?.id, 0 for none
CreatedIdOf(body) == IF body.id # 0 THEN body.id ELSE body.itemId

\* Number of items created in the CMS so far (the items that were there
\* before have the ids below 11)
CreatedCount ==
  Cardinality({ it \in UNION { cms[p] : p \in DOMAIN cms } : it.id >= 11 })

\* The id the CMS gives the next item it creates
NewId == 11 + CreatedCount

\* What the create endpoint may answer: a success whose body carries the id at
\* the top level, under item, or nowhere; a conflict; another failure.
CreateResponses ==
  { [status |-> OkStatus, id |-> NewId, itemId |-> 0],
    [status |-> OkStatus, id |-> 0, itemId |-> NewId],
    [status |-> OkStatus, id |-> 0, itemId |-> 0],
    [status |-> ConflictStatus, id |-> 0, itemId |-> 0],
    [status |-> ErrorStatus, id |-> 0, itemId |-> 0] }

\* The history with a request and the status it was answered with.
Logged(req) == IF recording THEN Append(log, req) ELSE log

\* The for-of loop goes to the entry after i, or ends and the handler
\* returns { statusCode: 200 }.
Continue(i) ==
  /\ idx' = i + 1
  /\ pc' = IF i + 1 > Len(entries) THEN "done" ELSE "loop"
  /\ statusCode' = IF i + 1 > Len(entries) THEN OkStatus ELSE statusCode

\* ---------------------------------------------------------------- actions
\* handler() is invoked with a required value missing: return 500 at once.
ConfigMissing ==
  /\ pc = "start"
  /\ MissingEnv
  /\ pc' = "done"
  /\ statusCode' = ErrorStatus
  /\ UNCHANGED << others, env, cms, nextUrl, existingSlugs, existingUrls, entries, idx,
                  createdId, log >>

\* handler() is invoked with its configuration: getExistingSlugsAndUrls()
\* starts at the first listing page with empty sets.
StartListing ==
  /\ pc = "start"
  /\ ~MissingEnv
  /\ pc' = "listing"
  /\ nextUrl' = 1
  /\ existingSlugs' = {}
  /\ existingUrls' = {}
  /\ UNCHANGED << others, env, cms, entries, idx, createdId, statusCode, log >>

\* Mutant of ListingPageFails: a non-ok listing response throws.
ListingPageFailsAborts ==
  /\ pc = "listing"
  /\ nextUrl # 0
  /\ log' = Logged(Req("list", nextUrl, ErrorStatus, 0))
  /\ pc' = "done"
  /\ statusCode' = ErrorStatus
  /\ UNCHANGED << others, env, cms, nextUrl, existingSlugs, existingUrls, entries,
                  idx, createdId >>

\* One pass of while (nextUrl): fetch the page; a non-ok response breaks.
ListingPageFails ==
  /\ pc = "listing"
  /\ nextUrl # 0
  /\ log' = Logged(Req("list", nextUrl, ErrorStatus, 0))
  /\ pc' = "feed"
  /\ UNCHANGED << others, env, cms, nextUrl, existingSlugs, existingUrls, entries, idx,
                  createdId, statusCode >>

\* One pass of while (nextUrl): fetch the page, add its slugs and URLs, follow
\* pagination.nextPage; the loop ends when it is null.
ListingPageOk ==
  /\ pc = "listing"
  /\ nextUrl # 0
  /\ log' = Logged(Req("list", nextUrl, OkStatus, 0))
  /\ existingSlugs' = existingSlugs \cup PageSlugs(cms[nextUrl])
  /\ existingUrls' = existingUrls \cup PageUrls(cms[nextUrl])
  /\ nextUrl' = NextPage(nextUrl)
  /\ pc' = IF NextPage(nextUrl) = 0 THEN "feed" ELSE "listing"
  /\ UNCHANGED << others, env, cms, entries, idx, createdId, statusCode >>

\* Mutant of FeedFails: rssResp.ok is not checked, the body is parsed anyway.
FeedFailsUnchecked ==
  /\ pc = "feed"
  /\ \E f \in Feeds :
       /\ entries' = f
       /\ idx' = 1
       /\ pc' = IF f = <<>> THEN "done" ELSE "loop"
       /\ statusCode' = IF f = <<>> THEN OkStatus ELSE statusCode
  /\ log' = Logged(Req("feed", 0, ErrorStatus, 0))
  /\ UNCHANGED << others, env, cms, nextUrl, existingSlugs, existingUrls, createdId >>

\* fetch(rssUrl) answers non-ok: throw, caught, return 500.
FeedFails ==
  /\ pc = "feed"
  /\ log' = Logged(Req("feed", 0, ErrorStatus, 0))
  /\ pc' = "done"
  /\ statusCode' = ErrorStatus
  /\ UNCHANGED << others, env, cms, nextUrl, existingSlugs, existingUrls, entries, idx,
                  createdId >>

\* fetch(rssUrl) answers ok: parse, normalize entries to an array, enter the
\* loop (an empty feed returns 200 at once).
FeedOk ==
  /\ pc = "feed"
  /\ \E f \in Feeds :
       /\ entries' = f
       /\ idx' = 1
       /\ pc' = IF f = <<>> THEN "done" ELSE "loop"
       /\ statusCode' = IF f = <<>> THEN OkStatus ELSE statusCode
  /\ log' = Logged(Req("feed", 0, OkStatus, 0))
  /\ UNCHANGED << others, env, cms, nextUrl, existingSlugs, existingUrls, createdId >>

\* Entry without id, title or link: log and continue.  (A falsy entry takes
\* the continue of line 85, with the same effect.)
SkipMissing ==
  /\ pc = "loop"
  /\ MissingFields(entries[idx])
  /\ Continue(idx)
  /\ UNCHANGED << others, env, cms, nextUrl, existingSlugs, existingUrls, entries,
                  createdId, log >>

\* Entry whose slug or URL is in the inventory: log and continue.
SkipDuplicate ==
  /\ pc = "loop"
  /\ ~MissingFields(entries[idx])
  /\ IsDuplicate(SlugOf(entries[idx].videoId), UrlKeyOf(entries[idx]))
  /\ Continue(idx)
  /\ UNCHANGED << others, env, cms, nextUrl, existingSlugs, existingUrls, entries,
                  createdId, log >>

\* new Date(publishedRaw).toISOString() throws RangeError on an invalid date:
\* the catch around the whole loop returns 500.
DateThrows ==
  /\ pc = "loop"
  /\ ~MissingFields(entries[idx])
  /\ ~IsDuplicate(SlugOf(entries[idx].videoId), UrlKeyOf(entries[idx]))
  /\ ~ValidDate(entries[idx].published)
  /\ pc' = "done"
  /\ statusCode' = ErrorStatus
  /\ UNCHANGED << others, env, cms, nextUrl, existingSlugs, existingUrls, entries, idx,
                  createdId, log >>

\* The entry passed the checks: POST the item.  A 2xx answer means the CMS
\* stored the item.  Non-ok answer or no id in the body: log and continue.
\* Otherwise record slug and URL in the inventory and go on to publish.
CreateItem ==
  /\ pc = "loop"
  /\ ~MissingFields(entries[idx])
  /\ ~IsDuplicate(SlugOf(entries[idx].videoId), UrlKeyOf(entries[idx]))
  /\ ValidDate(entries[idx].published)
  /\ \E resp \in CreateResponses :
       LET slug == SlugOf(entries[idx].videoId)
           urlKey == UrlKeyOf(entries[idx])
           id == CreatedIdOf(resp)
       IN /\ log' = Logged(Req("create", idx, resp.status, id))
          /\ cms' = IF IsOk(resp.status)
                    THEN [cms EXCEPT ![Len(cms)] =
                            @ \cup { [id |-> NewId, slug |-> slug, videoUrl |-> urlKey] }]
                    ELSE cms
          /\ IF ~IsOk(resp.status) \/ id = 0
             THEN /\ Continue(idx)
                  /\ UNCHANGED << existingSlugs, existingUrls, createdId >>
             ELSE /\ existingSlugs' = AddSlug(slug)
                  /\ existingUrls' = AddUrl(urlKey)
                  /\ createdId' = id
                  /\ pc' = "publish"
                  /\ UNCHANGED << idx, statusCode >>
  /\ UNCHANGED << others, env, nextUrl, entries >>

\* Mutant of PublishItem: the request carries the loop position, not the id.
PublishItemWrongId ==
  /\ pc = "publish"
  /\ \E status \in { OkStatus, ErrorStatus } :
       log' = Logged(Req("publish", idx, status, idx))
  /\ Continue(idx)
  /\ UNCHANGED << others, env, cms, nextUrl, existingSlugs, existingUrls, entries,
                  createdId >>

\* POST the publish request for createdId; ok or not, go to the next entry.
PublishItem ==
  /\ pc = "publish"
  /\ \E status \in { OkStatus, ErrorStatus } :
       log' = Logged(Req("publish", idx, status, createdId))
  /\ Continue(idx)
  /\ UNCHANGED << others, env, cms, nextUrl, existingSlugs, existingUrls, entries,
                  createdId >>

Next ==
  \/ ConfigMissing
  \/ StartListing
  \/ ListingPageFails
  \/ ListingPageOk
  \/ FeedFails
  \/ FeedOk
  \/ SkipMissing
  \/ SkipDuplicate
  \/ DateThrows
  \/ CreateItem
  \/ PublishItem

Spec == Init /\ [][Next]_vars

\* ------------------------------------------------- two invocations
\* The scheduler invokes handler() a second time, after the first returned or
\* while it is suspended at a fetch.  The invocations share nothing but the
\* CMS (and the environment and the feed); each has its own locals, and the
\* variables pc .. log are those of the invocation that takes the next step.
Current ==
  [ pc |-> pc, nextUrl |-> nextUrl, existingSlugs |-> existingSlugs,
    existingUrls |-> existingUrls, entries |-> entries, idx |-> idx,
    createdId |-> createdId, statusCode |-> statusCode, log |-> log ]

\* The other invocation takes the next step.  It can be suspended at any
\* fetch; switching away from an invocation that is between its first step
\* and its return makes the two overlap.
Switch ==
  /\ pc # "start"
  /\ parked.pc # "done"
  /\ parked' = Current
  /\ pc' = parked.pc
  /\ nextUrl' = parked.nextUrl
  /\ existingSlugs' = parked.existingSlugs
  /\ existingUrls' = parked.existingUrls
  /\ entries' = parked.entries
  /\ idx' = parked.idx
  /\ createdId' = parked.createdId
  /\ statusCode' = parked.statusCode
  /\ log' = parked.log
  /\ overlapped' = (overlapped \/ pc # "done")
  /\ UNCHANGED << env, cms, links, recording, rawDescription, safeDescription,
                  againDescription >>

\* The invocation got the feed.
FeedRead(run) ==
  \E k \in DOMAIN run.log : run.log[k].kind = "feed" /\ run.log[k].status = OkStatus

\* Both invocations are given the same feed.
SameFeed == FeedRead(Current) /\ FeedRead(parked) => entries = parked.entries

\* A step of the invocation that is running.
Invoke == Next /\ SameFeed' /\ Len(cms) + Len(entries') <= MaxRunLoad

RunsInit ==
  /\ env \in [EnvNames -> BOOLEAN]
  /\ cms \in { ps \in Listings : Len(ps) <= MaxRunLoad }
  /\ links = Chain(cms)
  /\ recording = TRUE
  /\ NotStarted
  /\ NoDescription

RunsNext == Invoke \/ Switch

RunsSpec == RunsInit /\ [][RunsNext]_vars

\* ------------------------------------------------- every fetch answers
\* The next-page link of a listing page is what the CMS answers: none, or any
\* page, one already fetched included.  The history of requests is not kept.
LiveInit ==
  /\ env \in [EnvNames -> BOOLEAN]
  /\ cms \in Listings
  /\ links \in [DOMAIN cms -> 0..Len(cms)]
  /\ recording = FALSE
  /\ NotStarted
  /\ NoDescription

\* Every awaited fetch returns a response and the handler then runs on: a
\* handler that can take a step takes one.
LiveSpec == LiveInit /\ [][Next]_vars /\ WF_vars(Next)

\* ------------------------------------------------- description, alone
\* The sanitizing of one entry's description, taken out of the loop: the
\* handler is at an entry whose media:description is any of Descriptions.
DescInit ==
  /\ env = [n \in EnvNames |-> TRUE]
  /\ cms = << {} >>
  /\ links = Chain(cms)
  /\ recording = TRUE
  /\ pc = "describe"
  /\ nextUrl = 0
  /\ existingSlugs = {}
  /\ existingUrls = {}
  /\ entries = <<>>
  /\ idx = 0
  /\ createdId = 0
  /\ statusCode = 0
  /\ log = <<>>
  /\ parked = Fresh
  /\ overlapped = FALSE
  /\ rawDescription \in Descriptions
  /\ safeDescription = <<>>
  /\ againDescription = <<>>

\* Lines 118-127: the payload's description from the entry's.
Sanitize ==
  /\ pc = "describe"
  /\ safeDescription' = SafeDescription(rawDescription)
  /\ pc' = "described"
  /\ UNCHANGED << env, cms, nextUrl, existingSlugs, existingUrls, entries, idx,
                  createdId, statusCode, log, links, recording, parked, overlapped,
                  rawDescription, againDescription >>

\* The same lines applied to their own result.
SanitizeAgain ==
  /\ pc = "described"
  /\ againDescription' = SafeDescription(safeDescription)
  /\ pc' = "redescribed"
  /\ UNCHANGED << env, cms, nextUrl, existingSlugs, existingUrls, entries, idx,
                  createdId, statusCode, log, links, recording, parked, overlapped,
                  rawDescription, safeDescription >>

DescNext == Sanitize \/ SanitizeAgain

DescSpec == DescInit /\ [][DescNext]_vars


\* ---------------------------------------------------------------- claims
\* Vocabulary of the properties below.
Requests(kind) == { k \in DOMAIN log : log[k].kind = kind }
AllItems == UNION { cms[p] : p \in DOMAIN cms }
CanonicalUrl(it) == Trim(it.videoUrl)
SharesKey(x, y) ==
  \/ x.slug = y.slug
  \/ CanonicalUrl(x) = CanonicalUrl(y) /\ CanonicalUrl(x) # <<>>
NoTwoItemsShareKey ==
  \A x, y \in AllItems : x.id # y.id => ~SharesKey(x, y)
ListingSucceeded == \A k \in Requests("list") : log[k].status = OkStatus
EveryCreatedIdReturned ==
  \A k \in Requests("create") : log[k].status = OkStatus => log[k].id # 0
EntrySlug(i) == <<"yt-">> \o entries[i].videoId
EntryLink(i) ==
  IF entries[i].href # <<>> THEN entries[i].href
  ELSE IF entries[i].videoId # <<>>
       THEN <<"https://www.youtube.com/watch?v=">> \o entries[i].videoId
       ELSE <<>>
Lacking(i) ==
  \/ entries[i].videoId = <<>>
  \/ entries[i].title = <<>>
  \/ EntryLink(i) = <<>>
NoRequestFor(i) ==
  \A k \in Requests("create") \cup Requests("publish") : log[k].n # i
\* The loop went past entry i without failing on it.
Passed(i) == i < idx

\* C1 (as stated): the CMS collection never holds two items that share a slug
\* or a canonical URL, whatever the listing and create responses were.
C1_NeverTwoItemsShareKey == NoTwoItemsShareKey

\* C1 (amended): when every listing page was fetched successfully and every
\* successful create response carried the item's id, the CMS collection never
\* holds two items that share a slug or a canonical URL.
C1_NoDuplicateWithCompleteInventory ==
  (ListingSucceeded /\ EveryCreatedIdReturned) => NoTwoItemsShareKey

\* C1 witness: a finished run with a complete listing that created an item and
\* skipped a later entry because an item already had its slug or URL.
C1_Witness ==
  /\ pc = "done" /\ statusCode = OkStatus
  /\ ListingSucceeded /\ EveryCreatedIdReturned
  /\ Requests("create") # {}
  /\ AllItems # {} /\ Cardinality(AllItems) >= 2
  /\ \E i \in DOMAIN entries :
       /\ ~Lacking(i) /\ NoRequestFor(i)
       /\ \E it \in AllItems :
            it.slug = EntrySlug(i) \/ CanonicalUrl(it) = Trim(EntryLink(i))

\* C2: a step that processes an entry whose slug is in the inventory slug set,
\* or whose trimmed link is in the inventory URL set, issues no request, does
\* not fail the run and moves to the next entry.
C2_KnownEntryIsSkipped ==
  [][ ( /\ pc = "loop"
        /\ \/ EntrySlug(idx) \in existingSlugs
           \/ Trim(EntryLink(idx)) \in existingUrls )
      => ( /\ log' = log
           /\ idx' = idx + 1
           /\ pc' \in { "loop", "done" }
           /\ statusCode' # ErrorStatus
           /\ cms' = cms ) ]_vars

\* C2 witness: an entry with id, title and link was passed without a request,
\* its URL being in the inventory while its slug is not.
C2_Witness ==
  \E i \in DOMAIN entries :
    /\ Passed(i) /\ ~Lacking(i) /\ NoRequestFor(i)
    /\ EntrySlug(i) \notin existingSlugs
    /\ Trim(EntryLink(i)) \in existingUrls

\* C3 (as stated): no two create requests of a run are for the same video id.
C3_OneCreatePerVideoId ==
  \A j, k \in Requests("create") :
    j # k => entries[log[j].n].videoId # entries[log[k].n].videoId

\* C3 (amended): a create request for a video id is never followed by another
\* create request for that id once it returned success with an item id; at
\* most one create request per id returns success with an id.
C3_NoCreateAfterCreatedWithId ==
  \A j, k \in Requests("create") :
    (j < k /\ entries[log[j].n].videoId = entries[log[k].n].videoId)
      => (log[j].status # OkStatus \/ log[j].id = 0)

\* C3 witness: a finished run over a feed with two entries of one video id,
\* the first created with an id, and exactly one create request made.
C3_Witness ==
  /\ pc = "done" /\ statusCode = OkStatus
  /\ Len(entries) >= 2
  /\ entries[1].videoId = entries[2].videoId
  /\ ~Lacking(1) /\ ~Lacking(2)
  /\ \E k \in Requests("create") :
       log[k].n = 1 /\ log[k].status = OkStatus /\ log[k].id # 0
  /\ Cardinality(Requests("create")) = 1

\* C4: with any of the three configuration values missing the handler issues
\* no request and its only step returns status 500.
C4_MissingConfigFailsWithoutRequests ==
  (\E n \in EnvNames : ~env[n])
    => /\ log = <<>>
       /\ pc \in { "start", "done" }
       /\ pc = "done" => statusCode = ErrorStatus

\* C4 witness: the handler returned with exactly one value missing.
C4_Witness ==
  /\ pc = "done"
  /\ Cardinality({ n \in EnvNames : ~env[n] }) = 1

\* C5: once the feed fetch answered non-ok the run has ended with status 500
\* and no create or publish request was issued.
C5_FeedFailureIsFatal ==
  (\E k \in Requests("feed") : log[k].status # OkStatus)
    => /\ pc = "done"
       /\ statusCode = ErrorStatus
       /\ Requests("create") = {}
       /\ Requests("publish") = {}

\* C5 witness: the feed fetch failed after the loader had filled the inventory.
C5_Witness ==
  /\ \E k \in Requests("feed") : log[k].status # OkStatus
  /\ existingSlugs # {}
  /\ existingUrls # {}

\* C6 (as stated): when the run has ended, every entry whose create request
\* failed or returned no id, or whose publish request failed, is followed by
\* entries that were all processed, and the returned status is 200.
C6_FailedRecordNeverAbortsRun ==
  \A k \in DOMAIN log :
    ( /\ pc = "done"
      /\ \/ log[k].kind = "create" /\ (log[k].status # OkStatus \/ log[k].id = 0)
         \/ log[k].kind = "publish" /\ log[k].status # OkStatus )
    => /\ \A j \in DOMAIN entries : j > log[k].n => Passed(j)
       /\ statusCode = OkStatus

\* C7 (as stated): when the run has ended at or after an entry that has id and
\* title, is no duplicate and has an unparsable published value, no create
\* request was made for it and every later entry was processed.
C7_BadDateFailsOnlyItsRecord ==
  \A i \in DOMAIN entries :
    ( /\ pc = "done" /\ i <= idx
      /\ ~Lacking(i)
      /\ EntrySlug(i) \notin existingSlugs
      /\ Trim(EntryLink(i)) \notin existingUrls
      /\ entries[i].published # GoodDate )
    => /\ NoRequestFor(i)
       /\ \A j \in DOMAIN entries : j > i => Passed(j)

\* C8 (as stated): when the run has ended, an entry whose create request was
\* answered 409 has no publish request, the entries after it were processed,
\* and the returned status is 200.
C8_ConflictIsSkippedAndRunSucceeds ==
  \A k \in Requests("create") :
    (pc = "done" /\ log[k].status = ConflictStatus)
    => /\ \A p \in Requests("publish") : log[p].n # log[k].n
       /\ \A j \in DOMAIN entries : j > log[k].n => Passed(j)
       /\ statusCode = OkStatus

\* C9: a step that processes an entry lacking video id, title or resolvable
\* link issues no request, does not fail the run and moves to the next entry.
C9_LackingEntryIsSkipped ==
  [][ (pc = "loop" /\ Lacking(idx))
      => ( /\ log' = log
           /\ idx' = idx + 1
           /\ pc' \in { "loop", "done" }
           /\ statusCode' # ErrorStatus
           /\ cms' = cms ) ]_vars

\* C9 witness: a finished run passed an entry without title with no request
\* for it and made a create request for the entry after it.
C9_Witness ==
  /\ pc = "done" /\ statusCode = OkStatus
  /\ Len(entries) >= 2
  /\ entries[1].videoId # <<>> /\ entries[1].title = <<>>
  /\ NoRequestFor(1)
  /\ \E k \in Requests("create") : log[k].n = 2

\* C10: every listing request precedes the feed request and every create
\* request; and when no listing fetch failed, once the loader has returned the
\* listing requests were exactly one per page in page order, and the
\* inventory it returned is the union of the slugs and of the trimmed
\* non-empty video-url values of the items of all pages.
C10_WholeListingBeforeFeed ==
  /\ \A j, k \in DOMAIN log :
       (log[j].kind = "list" /\ log[k].kind # "list") => j < k
  /\ \A j, k \in DOMAIN log :
       (log[j].kind = "feed" /\ log[k].kind \in { "create", "publish" }) => j < k
  /\ (ListingSucceeded /\ pc \in { "feed", "loop", "publish" })
       => /\ Cardinality(Requests("list")) = Len(cms)
          /\ \A k \in 1 .. Len(cms) : log[k].kind = "list" /\ log[k].n = k
  /\ (ListingSucceeded /\ pc = "feed")
       => /\ existingSlugs = { it.slug : it \in AllItems }
          /\ existingUrls =
               { CanonicalUrl(it) : it \in { x \in AllItems : CanonicalUrl(x) # <<>> } }

\* C10 witness: the loader returned after three successful page fetches with
\* slugs of two pages and a trimmed URL in the inventory.
C10_Witness ==
  /\ pc = "feed"
  /\ ListingSucceeded
  /\ Len(cms) = 3
  /\ Cardinality(Requests("list")) = 3
  /\ Cardinality(existingSlugs) = 2
  /\ existingUrls = { <<"https://www.youtube.com/watch?v=", "b">> }


\* C11: after a listing page fetch answered non-ok no further listing request
\* is made and the loader has returned; the inventory it returned is that of
\* the pages fetched successfully; and the run goes on to fetch the feed (it
\* does not end before a feed request).
C11_FailedPageEndsPagination ==
  \A k \in Requests("list") :
    log[k].status # OkStatus
    => /\ \A j \in Requests("list") : j <= k
       /\ pc # "listing"
       /\ pc = "done" => Requests("feed") # {}
       /\ pc = "feed" =>
            LET fetched == UNION { cms[log[j].n] : j \in Requests("list") \ { k } }
            IN /\ existingSlugs = { it.slug : it \in fetched }
               /\ existingUrls =
                    { CanonicalUrl(it) : it \in { x \in fetched : CanonicalUrl(x) # <<>> } }

\* C11 witness: the second listing page failed, the inventory holds the first
\* page's item, and the run went on to a create request and returned 200.
C11_Witness ==
  /\ pc = "done" /\ statusCode = OkStatus
  /\ Len(log) >= 2
  /\ log[2].kind = "list" /\ log[2].status # OkStatus
  /\ existingSlugs # {}
  /\ Requests("create") # {}

\* C14: every publish request comes after a create request for the same entry
\* that was answered with success and an item id, and carries that id.
C14_PublishOnlyAfterCreateWithId ==
  \A p \in Requests("publish") :
    \E c \in Requests("create") :
      /\ c < p
      /\ log[c].n = log[p].n
      /\ log[c].status = OkStatus
      /\ log[c].id # 0
      /\ log[p].id = log[c].id

\* C14 witness: a finished run published its second created item, and made no
\* publish request for an entry whose create response carried no id.
C14_Witness ==
  /\ pc = "done"
  /\ \E p \in Requests("publish") : log[p].n = 2 /\ log[p].id = 12
  /\ \E c \in Requests("create") :
       /\ log[c].n = 1 /\ log[c].status = OkStatus /\ log[c].id = 0
       /\ \A p \in Requests("publish") : log[p].n # 1

\* Terminal states of the entries, read from the requests made.
CreatedWithId(i) ==
  \E c \in Requests("create") :
    log[c].n = i /\ log[c].status = OkStatus /\ log[c].id # 0
Skipped(i) == Passed(i) /\ NoRequestFor(i)
CreateFailed(i) ==
  /\ \E c \in Requests("create") :
       log[c].n = i /\ (log[c].status # OkStatus \/ log[c].id = 0)
  /\ \A p \in Requests("publish") : log[p].n # i
CreatedAndPublished(i) ==
  CreatedWithId(i) /\ \E p \in Requests("publish") : log[p].n = i /\ log[p].status = OkStatus
CreatedAndPublishFailed(i) ==
  CreatedWithId(i) /\ \E p \in Requests("publish") : log[p].n = i /\ log[p].status # OkStatus
TerminalStates(i) ==
  { t \in { "Skipped", "CreateFailed", "Published", "PublishFailed" } :
      \/ t = "Skipped" /\ Skipped(i)
      \/ t = "CreateFailed" /\ CreateFailed(i)
      \/ t = "Published" /\ CreatedAndPublished(i)
      \/ t = "PublishFailed" /\ CreatedAndPublishFailed(i) }

\* C15 (as stated): no entry has two create requests or two publish requests,
\* and when the run has ended after reading the feed every entry is in
\* exactly one of the terminal states.
C15_NoRetryAndEveryEntryTerminal ==
  /\ \A j, k \in Requests("create") : j # k => log[j].n # log[k].n
  /\ \A j, k \in Requests("publish") : j # k => log[j].n # log[k].n
  /\ pc = "done" => \A i \in DOMAIN entries : Cardinality(TerminalStates(i)) = 1

\* C18: no step removes anything from the inventory; a step of the loop that
\* gets a create response with success and an item id adds the entry's slug
\* and trimmed link, and nothing else, and goes on to the publish request;
\* every other step of the loop (skip, failed create, create without id,
\* publish) leaves both sets as they are.
C18_InventoryGrowsOnlyOnCreatedWithId ==
  [][ /\ existingSlugs \subseteq existingSlugs'
      /\ existingUrls \subseteq existingUrls'
      /\ pc \in { "loop", "publish" } =>
           IF /\ Len(log') = Len(log) + 1
              /\ log'[Len(log')].kind = "create"
              /\ log'[Len(log')].status = OkStatus
              /\ log'[Len(log')].id # 0
           THEN /\ existingSlugs' = existingSlugs \cup { EntrySlug(idx) }
                /\ existingUrls' = existingUrls \cup { Trim(EntryLink(idx)) }
                /\ pc' = "publish"
           ELSE /\ existingSlugs' = existingSlugs
                /\ existingUrls' = existingUrls ]_vars

\* C18 witness: a finished run whose first entry was created and failed to
\* publish, its slug and URL recorded, and whose second entry's create failed,
\* its slug not recorded.
C18_Witness ==
  /\ pc = "done"
  /\ Len(entries) >= 2
  /\ CreatedAndPublishFailed(1)
  /\ EntrySlug(1) \in existingSlugs /\ Trim(EntryLink(1)) \in existingUrls
  /\ CreateFailed(2)
  /\ EntrySlug(2) \notin existingSlugs


\* C12 (as stated): the sanitizing applied to its own result gives that
\* result back.
C12_SanitizingIsIdempotent ==
  pc = "redescribed" => againDescription = safeDescription

\* The letters of s in order, each with whether it begins a word.
Words(s) ==
  SelectSeq([i \in DOMAIN s |-> << s[i], i = 1 \/ IsWs(s[i - 1]) >>],
            LAMBDA m : ~IsWs(m[1]))

\* C13: the description sent has at most 1000 characters, no line break and
\* no two whitespace characters in a row; for a description within the limit
\* it is the words of the description, in order, with one space between
\* consecutive words and none before or after; the sentence of two lines
\* becomes the one line.
C13_DescriptionFitsOneLine ==
  pc \in { "described", "redescribed" } =>
    /\ Len(safeDescription) <= MAX_LEN
    /\ \A i \in DOMAIN safeDescription : safeDescription[i] \notin { LF, CR }
    /\ \A i \in DOMAIN safeDescription :
         i > 1 => ~(IsWs(safeDescription[i - 1]) /\ IsWs(safeDescription[i]))
    /\ Len(rawDescription) <= MAX_LEN =>
         /\ Words(safeDescription) = Words(rawDescription)
         /\ \A i \in DOMAIN safeDescription :
              IsWs(safeDescription[i]) =>
                safeDescription[i] = Sp /\ 1 < i /\ i < Len(safeDescription)
    /\ rawDescription = TwoLines =>
         safeDescription =
           << "L", "i", "n", "e", Sp, "o", "n", "e", Sp, "L", "i", "n", "e", Sp,
              "t", "w", "o", Sp, "t", "h", "r", "e", "e" >>

\* C13 witness: a description longer than the limit, with a line break, was
\* cut to the limit.
C13_Witness ==
  /\ pc = "described"
  /\ Len(rawDescription) > MAX_LEN
  /\ \E i \in DOMAIN rawDescription : rawDescription[i] \in { LF, CR }
  /\ Len(safeDescription) = MAX_LEN


\* C20 (as stated): whatever the listing answers, the invocation eventually
\* returns a result, of status 200 or 500.
C20_EveryInvocationReturns ==
  <>(pc = "done" /\ statusCode \in { OkStatus, ErrorStatus })


\* Two invocations, read from their requests.
CreatesOf(run) == { k \in DOMAIN run.log : run.log[k].kind = "create" }
PublishesOf(run) == { k \in DOMAIN run.log : run.log[k].kind = "publish" }
ListingSucceededIn(run) ==
  \A k \in DOMAIN run.log : run.log[k].kind = "list" => run.log[k].status = OkStatus
\* The parked invocation returned before the current one took its first step.
Sequential == ~overlapped /\ parked.pc = "done"
\* Entry i was created with an id in the earlier run and its publish failed.
LeftUnpublished(i) ==
  \E c \in CreatesOf(parked), p \in PublishesOf(parked) :
    /\ parked.log[c].n = i /\ parked.log[c].status = OkStatus /\ parked.log[c].id # 0
    /\ parked.log[p].n = i /\ parked.log[p].status # OkStatus
\* Both invocations got a create request for one slug answered with success.
DoubleCreated ==
  \E c \in Requests("create"), d \in CreatesOf(parked) :
    /\ log[c].status = OkStatus
    /\ parked.log[d].status = OkStatus
    /\ EntrySlug(log[c].n) = SlugOf(parked.entries[parked.log[d].n].videoId)

\* C16: when an earlier run created an entry's item and failed to publish it,
\* a later run over the same feed whose listing succeeded on every page has
\* the item's slug in its inventory, finds the entry a duplicate, and makes
\* no create request and no publish request for it, nor any publish request
\* for the item.
C16_UnpublishedItemIsNotRetried ==
  Sequential /\ pc \in { "loop", "publish", "done" } /\ ListingSucceeded /\ FeedRead(Current)
  => \A i \in DOMAIN parked.entries :
       LeftUnpublished(i)
       => /\ EntrySlug(i) \in existingSlugs
          /\ IsDuplicate(EntrySlug(i), Trim(EntryLink(i)))
          /\ NoRequestFor(i)
          /\ \A p \in Requests("publish"), c \in CreatesOf(parked) :
               parked.log[c].n = i => log[p].id # parked.log[c].id

\* C16 witness: the later run returned 200 having gone past an entry that the
\* earlier run had created and failed to publish.
C16_Witness ==
  /\ Sequential
  /\ pc = "done" /\ statusCode = OkStatus
  /\ ListingSucceeded
  /\ \E i \in DOMAIN entries : LeftUnpublished(i) /\ Passed(i)

\* C17: both invocations get a create request for one slug answered with
\* success only if they overlapped or the later one's listing had a failed
\* page: with one invocation after the other and complete listings no slug
\* is created by both.
C17_DoubleCreateNeedsOverlap ==
  DoubleCreated => overlapped \/ ~ListingSucceeded

\* C17 witness: the invocations overlapped, both loaded the whole inventory,
\* both created the same slug, and the collection holds the two items.
C17_Witness ==
  /\ overlapped
  /\ DoubleCreated
  /\ ListingSucceeded /\ ListingSucceededIn(parked)
  /\ \E x, y \in AllItems : x.id >= 11 /\ y.id > x.id /\ x.slug = y.slug

\* C19 (as stated): when an earlier run over the feed ended with every one of
\* its create requests answered with success and an id, and the next run's
\* listing succeeded on every page, the next run over the same feed ends with
\* no create request, no publish request and status 200.
C19_RerunAfterCleanRunDoesNothing ==
  /\ Sequential
  /\ FeedRead(parked)
  /\ \A c \in CreatesOf(parked) : parked.log[c].status = OkStatus /\ parked.log[c].id # 0
  /\ pc = "done"
  /\ ListingSucceeded
  /\ FeedRead(Current)
  => /\ Requests("create") = {}
     /\ Requests("publish") = {}
     /\ statusCode = OkStatus

====
